---- MODULE Spec2Model ----
(***************************************************************************)
(* Steam store asset generation of the WAVELET repository:                 *)
(*   src/generate_steam_assets.py  create_store_asset, create_hero_with_   *)
(*                                 logo, main                              *)
(*   src/capture_screenshots.py    generate_steam_assets, resize_and_crop  *)
(* An image is modelled by its size <<width, height>>; the pixels are not  *)
(* modelled.  Python's float arithmetic (IEEE-754 binary64) is modelled    *)
(* exactly for the expressions the code evaluates, see "binary64" below.   *)
(***************************************************************************)
EXTENDS Integers, Sequences, FiniteSets, TLC

VARIABLES
    fit,          \* what the last create_store_asset / resize_and_crop call computed
    hero,         \* what the last create_hero_with_logo call computed
    mpc,          \* generate_steam_assets.py main(): position
    screenshots,  \* generate_steam_assets.py main(): sizes of the .png files of SOURCE_DIR, sorted by name
    outputs,      \* generate_steam_assets.py: output names of the files saved into OUTPUT_DIR
    shots,        \* capture_screenshots.py generate_steam_assets(): its argument
    gpc,          \* capture_screenshots.py generate_steam_assets(): position [at, i, j]
    assets        \* capture_screenshots.py generate_steam_assets(): the assets saved so far

vars == <<fit, hero, mpc, screenshots, outputs, shots, gpc, assets>>

(***************************************************************************)
(* Bounds of the model.                                                    *)
(***************************************************************************)
\* Sources and targets of direct calls range over every size up to MaxDim x MaxDim
\* (and over the program's named sizes).
MaxDim == 9
\* Direct calls of create_hero_with_logo pass 0..MaxSources source paths.
MaxSources == 15
\* main() finds 0..MaxScreenshots .png files in SOURCE_DIR.
MaxScreenshots == 7
\* generate_steam_assets() is given at most MaxShots screenshots.
MaxShots == 2

(***************************************************************************)
(* Program constants.                                                      *)
(***************************************************************************)
\* generate_steam_assets.py:16-29
STEAM_ASSETS ==
    [header_capsule   |-> <<920, 430>>,
     small_capsule    |-> <<462, 174>>,
     main_capsule     |-> <<1232, 706>>,
     vertical_capsule |-> <<748, 896>>,
     library_capsule  |-> <<600, 900>>,
     library_hero     |-> <<3840, 1240>>,
     screenshot       |-> <<1920, 1080>>]

\* capture_screenshots.py:24-30, in the dict's (insertion) order: <<name, width, height, suffix>>
STEAM_REQUIREMENTS ==
    << <<"main_capsule", 1232, 706, "main_capsule">>,
       <<"small_capsule", 462, 174, "small_capsule">>,
       <<"header", 920, 430, "header">>,
       <<"screenshot", 1920, 1080, "screenshot">>,
       <<"library_hero", 3840, 1240, "library_hero">> >>

(***************************************************************************)
(* binary64.  The code computes                                            *)
(*     ratio = a / b            (true division of two positive ints)       *)
(*     int(n * ratio)   and   int(n / ratio)                               *)
(* in IEEE-754 double precision, round-to-nearest-even.  With              *)
(*     2^t <= a/b < 2^(t+1),   s = 52 - t,                                 *)
(* the double nearest to a/b is  m / 2^s  with m the integer nearest to    *)
(* a*2^s/b (53 bits; a tie cannot occur for a, b < 2^26), that is          *)
(*     fl(a/b) = a/b - r / (b * 2^s),   r = a*2^s - m*b,  -b/2 < r < b/2.  *)
(* r is computed below from (a * 2^s) mod b by repeated doubling, so every *)
(* intermediate value stays a small integer.                               *)
(***************************************************************************)

\* x * 2^e <= y, for integers 0 <= x, y < 2^30 and any integer e, without overflow:
\* x <= floor(y / 2^e) when e >= 0, ceil(x / 2^-e) <= y when e < 0.
LeScaled(x, e, y) ==
    IF e >= 0
    THEN IF e > 30 THEN x = 0 ELSE x <= y \div 2^e
    ELSE IF e < -30 THEN x = 0 \/ y >= 1
         ELSE (x + 2^(0 - e) - 1) \div 2^(0 - e) <= y

\* The t with 2^t <= a/b < 2^(t+1): the binade of the quotient.
RECURSIVE BinadeUp(_, _, _)
BinadeUp(a, b, t) == IF a >= 2 * b THEN BinadeUp(a, 2 * b, t + 1) ELSE t

RECURSIVE BinadeDown(_, _, _)
BinadeDown(a, b, t) == IF a < b THEN BinadeDown(2 * a, b, t - 1) ELSE t

Binade(a, b) == IF a >= b THEN BinadeUp(a, b, 0) ELSE BinadeDown(a, b, 0)

\* (x * 2^s) mod b, for x < b < 2^20, eight doublings at a time
RECURSIVE DoubleMod(_, _, _)
DoubleMod(x, s, b) ==
    IF s = 0 THEN x
    ELSE IF s >= 8 THEN DoubleMod((256 * x) % b, s - 8, b)
    ELSE DoubleMod((2 * x) % b, s - 1, b)

\* r of fl(a/b) = a/b - r/(b * 2^s): positive when the division rounded down,
\* negative when it rounded up, 0 when a/b is a double.
RoundingError(a, b) ==
    LET rem == DoubleMod(a % b, 52 - Binade(a, b), b)
    IN  IF 2 * rem < b THEN rem ELSE rem - b

\* The j with 2^j < k <= 2^(j+1), k >= 1: the doubles just below k are 2^(j-52) apart.
GapExp(k) == IF k = 1 THEN -1 ELSE CHOOSE j \in 0..29 : 2^j < k /\ k <= 2^(j + 1)

(***************************************************************************)
(* int(n * (a / b)).  The exact product is n*a/b - n*r/(b*2^s).  When b    *)
(* does not divide n*a the product is at least 1/b away from an integer,   *)
(* far more than the two roundings move it, and int() gives floor(n*a/b).  *)
(* When n*a/b is an integer k, the product is k or just above it if        *)
(* r <= 0 (int gives k); if r > 0 it is just below k and the               *)
(* multiplication rounds it back to k exactly when it is no further from k *)
(* than half the gap to the double below k (a tie goes to k, whose         *)
(* significand is even):  n*r/(b*2^s) <= 2^(j-53),  i.e.                   *)
(* n*r*2^(1+t-j) <= b.  Otherwise the result is below k and int gives k-1. *)
(***************************************************************************)
IntMulRatio(n, a, b) ==
    LET k == (n * a) \div b
        r == RoundingError(a, b)
    IN  IF (n * a) % b # 0 \/ r <= 0 THEN k
        ELSE IF LeScaled(n * r, 1 + Binade(a, b) - GapExp(k), b) THEN k
        ELSE k - 1

\* A faulty IntDivRatio: round(n / (a / b)), the nearest integer, in place of int().
RoundDivRatio(n, a, b) == (2 * n * b + a) \div (2 * a)

(***************************************************************************)
(* int(n / (a / b)).  The exact quotient is (n*b/a) / (1 - r/(a*2^s)).     *)
(* When a does not divide n*b, int() gives floor(n*b/a) as above.  When    *)
(* n*b/a is an integer k: the quotient is k or just above it if r >= 0;    *)
(* if r < 0 it is just below k and rounds back to k exactly when           *)
(* k*|r|*2^(1+t-j) <= a.  Otherwise int gives k-1.                         *)
(***************************************************************************)
IntDivRatio(n, a, b) ==
    LET k == (n * b) \div a
        r == RoundingError(a, b)
    IN  IF (n * b) % a # 0 \/ r >= 0 THEN k
        ELSE IF LeScaled(k * (0 - r), 1 + Binade(a, b) - GapExp(k), a) THEN k
        ELSE k - 1

\* a/b > c/d on doubles.  Distinct quotients of integers below 2^26 round to
\* distinct doubles in the same order, so the comparison is that of the rationals.
RatioGreater(a, b, c, d) == a * d > c * b

(***************************************************************************)
(* Pillow, as far as the code depends on it: resize((w, h)) returns an     *)
(* image of exactly that size and raises ValueError unless w, h >= 1;      *)
(* crop((l, t, r, b)) returns an image of size (r - l) x (b - t) whatever  *)
(* part of the box lies inside the image (the rest is filled with black).  *)
(***************************************************************************)
ResizeOk(w, h) == w >= 1 /\ h >= 1

CropSize(box) == <<box[3] - box[1], box[4] - box[2]>>

FitStrategies == {"cover", "contain"}

(***************************************************************************)
(* generate_steam_assets.py create_store_asset, lines 31-87.               *)
(* The result records the locals the call assigned: a call that raises     *)
(* stops at the resize and has no offset, box, paste or output.            *)
(***************************************************************************)

\* Lines 47-62: the scaled size in the cover branch.
cover_scale(source, size) ==
    IF RatioGreater(source[1], source[2], size[1], size[2])
    THEN <<IntMulRatio(size[2], source[1], source[2]), size[2]>>
    ELSE <<size[1], IntDivRatio(size[1], source[1], source[2])>>

\* Lines 55 and 62: the box handed to crop() in the cover branch.
cover_box(new_w, new_h, target_w, target_h) == <<0, 0, target_w, target_h>>

\* A faulty contain_scale: the comparison of line 66 inverted.
contain_scale_inverted(source, size) ==
    IF ~RatioGreater(source[1], source[2], size[1], size[2])
    THEN <<size[1], IntDivRatio(size[1], source[1], source[2])>>
    ELSE <<IntMulRatio(size[2], source[1], source[2]), size[2]>>

\* Lines 63-77: the scaled size in the contain branch.
contain_scale(source, size) ==
    IF RatioGreater(source[1], source[2], size[1], size[2])
    THEN <<size[1], IntDivRatio(size[1], source[1], source[2])>>
    ELSE <<IntMulRatio(size[2], source[1], source[2]), size[2]>>

create_store_asset(source, output_name, size, fit_strategy) ==
    LET target_w == size[1]
        target_h == size[2]
        wider    == RatioGreater(source[1], source[2], target_w, target_h)
        scaled   == IF fit_strategy = "cover" THEN cover_scale(source, size)
                                              ELSE contain_scale(source, size)
        new_w    == scaled[1]
        new_h    == scaled[2]
        call     == [fn |-> "create_store_asset", source |-> source, size |-> size,
                     fit_strategy |-> fit_strategy, wider |-> wider,
                     new_w |-> new_w, new_h |-> new_h]
    IN  IF ~ResizeOk(new_w, new_h)
        THEN call @@ [error |-> "ValueError"]
        ELSE IF fit_strategy = "cover"
        THEN LET box == cover_box(new_w, new_h, target_w, target_h)
                 offset == IF wider THEN [left |-> (new_w - target_w) \div 2]
                                    ELSE [top |-> (new_h - target_h) \div 2]
             IN  call @@ offset @@
                 [error |-> "none", box |-> box, out_size |-> CropSize(box),
                  output_path |-> output_name]
        ELSE LET offset == IF wider THEN [top |-> (target_h - new_h) \div 2]
                                    ELSE [left |-> (target_w - new_w) \div 2]
                 paste  == IF wider THEN <<0, offset.top>> ELSE <<offset.left, 0>>
             IN  call @@ offset @@
                 [error |-> "none", paste |-> paste, out_size |-> <<target_w, target_h>>,
                  output_path |-> output_name]

(***************************************************************************)
(* capture_screenshots.py resize_and_crop, lines 203-225.                  *)
(***************************************************************************)
resize_and_crop(img, target_width, target_height) ==
    LET wider == RatioGreater(img[1], img[2], target_width, target_height)
        new_height == IF wider THEN target_height
                               ELSE IntDivRatio(target_width, img[1], img[2])
        new_width  == IF wider THEN IntMulRatio(target_height, img[1], img[2])
                               ELSE target_width
        left   == (new_width - target_width) \div 2
        top    == (new_height - target_height) \div 2
        right  == left + target_width
        bottom == top + target_height
        call   == [fn |-> "resize_and_crop", source |-> img,
                   size |-> <<target_width, target_height>>, fit_strategy |-> "cover",
                   wider |-> wider, new_w |-> new_width, new_h |-> new_height]
    IN  IF ~ResizeOk(new_width, new_height)
        THEN call @@ [error |-> "ValueError"]
        ELSE call @@ [error |-> "none", left |-> left, top |-> top,
                      box |-> <<left, top, right, bottom>>,
                      out_size |-> CropSize(<<left, top, right, bottom>>)]

NoCall == [fn |-> "none"]

(***************************************************************************)
(* generate_steam_assets.py create_hero_with_logo, lines 89-131.           *)
(* The source paths are modelled by their number n: tile i shows           *)
(* source_paths[i].  A call that raises keeps the locals it had assigned;  *)
(* "saved" tells whether bg.save (line 129) was reached.                   *)
(***************************************************************************)
MaxTiles == 12
MaxCols == 4
TitleOffset == 80
TitleWidth == 400
TitleHeight == 60

Min(a, b) == IF a < b THEN a ELSE b

\* A faulty hero_padding: round(target_w * 0.02) in place of int().
hero_padding_rounded(target_w) == (target_w + 25) \div 50

\* Line 101: int(target_w * 0.02); the literal 0.02 is the double nearest to 1/50.
hero_padding(target_w) == IntMulRatio(target_w, 1, 50)

\* Line 105: int(cell_w * 9/16): cell_w * 9 is an int and the division by 16 is exact.
hero_cell_h(cell_w) == (cell_w * 9) \div 16

\* A faulty hero_cols: never fewer than one column, so that no sources do not fail.
hero_cols_at_least_one(n) == IF n < 1 THEN 1 ELSE Min(MaxCols, n)

\* Line 99
hero_cols(n) == Min(MaxCols, n)

\* Line 98: the number of sources the grid is laid out for.
hero_layout_count(n) == n

\* Line 110: the sources that are placed.
hero_placed_count(n) == Min(n, MaxTiles)

\* A faulty hero_start_y: an overflowing grid is aligned to the top of the canvas.
hero_start_y_clamped(target_h, total_h) ==
    IF total_h > target_h THEN 0 ELSE (target_h - total_h) \div 2

\* Line 107
hero_start_y(target_h, total_h) == (target_h - total_h) \div 2

\* Line 124
hero_title_y(start_y) == start_y - TitleOffset

create_hero_with_logo(len, output_name, size) ==
    LET target_w == size[1]
        target_h == size[2]
        n        == hero_layout_count(len)
        cols     == hero_cols(n)
        call     == [fn |-> "create_hero_with_logo", len |-> len, size |-> size,
                     n |-> n, cols |-> cols]
    IN  IF cols = 0
        THEN call @@ [error |-> "ZeroDivisionError", tiles |-> <<>>, saved |-> FALSE]
        ELSE
        LET rows    == (n + cols - 1) \div cols
            padding == hero_padding(target_w)
            gap     == padding
            cell_w  == (target_w - padding * (cols + 1)) \div cols
            cell_h  == hero_cell_h(cell_w)
            total_h == padding + cell_h * rows + gap * (rows - 1)
            start_y == hero_start_y(target_h, total_h)
            layout  == call @@ [rows |-> rows, padding |-> padding, gap |-> gap,
                                cell_w |-> cell_w, cell_h |-> cell_h,
                                total_h |-> total_h, start_y |-> start_y]
            tiles   == [k \in 1..hero_placed_count(len) |->
                          LET i == k - 1
                              col == i % cols
                              row == i \div cols
                          IN  [src |-> i, col |-> col, row |-> row,
                               x |-> padding + col * (cell_w + gap),
                               y |-> start_y + row * (cell_h + gap)]]
            title_y == hero_title_y(start_y)
        IN  IF ~ResizeOk(cell_w, cell_h)
            THEN layout @@ [error |-> "ValueError", tiles |-> <<>>, saved |-> FALSE]
            ELSE layout @@
                 [error |-> "none", tiles |-> tiles, title_y |-> title_y,
                  title |-> <<padding, title_y, padding + TitleWidth, title_y + TitleHeight>>,
                  saved |-> TRUE, output_path |-> output_name]

(***************************************************************************)
(* The idle state: nothing called, nothing saved.                          *)
(***************************************************************************)
Idle ==
    /\ fit = NoCall
    /\ hero = NoCall
    /\ mpc = "idle"
    /\ outputs = {}
    /\ gpc = [at |-> "idle", i |-> 0, j |-> 0]
    /\ assets = {}

SmallSizes == (1..MaxDim) \X (1..MaxDim)

NamedSizes == {STEAM_ASSETS[k] : k \in DOMAIN STEAM_ASSETS}

SourceSizes == SmallSizes \cup NamedSizes

TargetSizes == SmallSizes \cup NamedSizes

(***************************************************************************)
(* Spec: one direct call of a fit function on any source and target.       *)
(***************************************************************************)
CallCreateStoreAsset ==
    /\ fit = NoCall
    /\ \E source \in SourceSizes, size \in TargetSizes, fit_strategy \in FitStrategies :
          LET result == create_store_asset(source, "asset", size, fit_strategy)
          IN  /\ fit' = result
              /\ outputs' = IF result.error = "none" THEN outputs \cup {"asset"} ELSE outputs
    /\ UNCHANGED <<hero, mpc, screenshots, shots, gpc, assets>>

CallResizeAndCrop ==
    /\ fit = NoCall
    /\ \E img \in SourceSizes, size \in TargetSizes :
          fit' = resize_and_crop(img, size[1], size[2])
    /\ UNCHANGED <<hero, mpc, screenshots, outputs, shots, gpc, assets>>

Init == Idle /\ screenshots = <<>> /\ shots = <<>>

Next == CallCreateStoreAsset \/ CallResizeAndCrop

Spec == Init /\ [][Next]_vars

(***************************************************************************)
(* generate_steam_assets.py main, lines 133-167, run in a fresh process.   *)
(* mpc is "idle" before the call, then the name of the asset main is about *)
(* to create, then "done"; "returned" after the early return of line 143,  *)
(* "raised" when a call raised.                                            *)
(***************************************************************************)
RecentCount == 6

\* Lines 152-164, in order.
MainSteps == <<"header_capsule", "small_capsule", "main_capsule", "vertical_capsule",
               "library_hero", "library_capsule">>

StepAfter(name) ==
    LET i == CHOOSE k \in 1..Len(MainSteps) : MainSteps[k] = name
    IN  IF i = Len(MainSteps) THEN "done" ELSE MainSteps[i + 1]

\* Line 160: screenshots[-6:]
recent_screenshots(list) ==
    SubSeq(list, Len(list) - Min(RecentCount, Len(list)) + 1, Len(list))

\* Lines 138-147
MainStart ==
    /\ mpc = "idle" /\ fit = NoCall /\ hero = NoCall
    /\ mpc' = IF screenshots = <<>> THEN "returned" ELSE MainSteps[1]
    /\ UNCHANGED <<fit, hero, screenshots, outputs, shots, gpc, assets>>

\* Lines 152-155 and 164: create_store_asset(latest_screenshot, name, STEAM_ASSETS[name])
MainStoreAsset ==
    /\ mpc \in {"header_capsule", "small_capsule", "main_capsule", "vertical_capsule",
                "library_capsule"}
    /\ LET latest_screenshot == screenshots[Len(screenshots)]
           result == create_store_asset(latest_screenshot, mpc, STEAM_ASSETS[mpc], "cover")
       IN  /\ fit' = result
           /\ outputs' = IF result.error = "none" THEN outputs \cup {mpc} ELSE outputs
           /\ mpc' = IF result.error = "none" THEN StepAfter(mpc) ELSE "raised"
    /\ UNCHANGED <<hero, screenshots, shots, gpc, assets>>

\* Lines 160-161
MainHero ==
    /\ mpc = "library_hero"
    /\ LET result == create_hero_with_logo(Len(recent_screenshots(screenshots)),
                                           "library_hero", STEAM_ASSETS.library_hero)
       IN  /\ hero' = result
           /\ outputs' = IF result.saved THEN outputs \cup {"library_hero"} ELSE outputs
           /\ mpc' = IF result.error = "none" THEN StepAfter(mpc) ELSE "raised"
    /\ UNCHANGED <<fit, screenshots, shots, gpc, assets>>

(***************************************************************************)
(* SpecHero: main() on any directory of screenshots, or one direct call of *)
(* create_hero_with_logo on any number of sources and any named canvas.    *)
(***************************************************************************)
CallCreateHeroWithLogo ==
    /\ mpc = "idle" /\ hero = NoCall
    /\ \E len \in 0..MaxSources, size \in NamedSizes :
          LET result == create_hero_with_logo(len, "hero", size)
          IN  /\ hero' = result
              /\ outputs' = IF result.saved THEN outputs \cup {"hero"} ELSE outputs
    /\ UNCHANGED <<fit, mpc, screenshots, shots, gpc, assets>>

ScreenshotSizes == NamedSizes

InitHero ==
    /\ Idle
    /\ shots = <<>>
    /\ \E count \in 0..MaxScreenshots, size \in ScreenshotSizes :
          screenshots = [i \in 1..count |-> size]

NextHero == CallCreateHeroWithLogo \/ MainStart \/ MainStoreAsset \/ MainHero

SpecHero == InitHero /\ [][NextHero]_vars

(***************************************************************************)
(* capture_screenshots.py generate_steam_assets, lines 166-200.            *)
(* A screenshot is None, the path of a missing file, or the path of an     *)
(* image file of some size.  gpc.at is "idle" before the call, "shot" at   *)
(* the head of the outer loop (line 183) with gpc.i the next screenshot,   *)
(* "size" at the head of the inner loop (line 191) with gpc.j the next     *)
(* entry of STEAM_REQUIREMENTS, "done" after the loops, "raised" when      *)
(* resize_and_crop raised.                                                 *)
(***************************************************************************)
At(at, i, j) == [at |-> at, i |-> i, j |-> j]

\* A faulty too_small: skipped only when both dimensions exceed the source.
too_small_both(img, width, height) == width > img[1] /\ height > img[2]

\* Line 192: the size is skipped
too_small(img, width, height) == width > img[1] \/ height > img[2]

GsaStart ==
    /\ gpc.at = "idle"
    /\ gpc' = At("shot", 1, 0)
    /\ UNCHANGED <<fit, hero, mpc, screenshots, outputs, shots, assets>>

\* Lines 183-188
GsaShot ==
    /\ gpc.at = "shot"
    /\ gpc' = IF gpc.i > Len(shots) THEN At("done", gpc.i, 0)
              ELSE IF shots[gpc.i].kind # "file" THEN At("shot", gpc.i + 1, 0)
              ELSE At("size", gpc.i, 1)
    /\ UNCHANGED <<fit, hero, mpc, screenshots, outputs, shots, assets>>

\* Lines 191-200: one iteration of the inner loop
GsaSize ==
    /\ gpc.at = "size"
    /\ LET img    == shots[gpc.i].size
           req    == STEAM_REQUIREMENTS[gpc.j]
           result == resize_and_crop(img, req[2], req[3])
           next   == IF gpc.j = Len(STEAM_REQUIREMENTS) THEN At("shot", gpc.i + 1, 0)
                     ELSE At("size", gpc.i, gpc.j + 1)
       IN  IF too_small(img, req[2], req[3])
           THEN gpc' = next /\ UNCHANGED <<fit, assets>>
           ELSE /\ fit' = result
                /\ assets' = IF result.error = "none"
                             THEN assets \cup {[shot |-> gpc.i, size_name |-> req[1],
                                                suffix |-> req[4], source |-> img,
                                                new_w |-> result.new_w, new_h |-> result.new_h,
                                                out_size |-> result.out_size]}
                             ELSE assets
                /\ gpc' = IF result.error = "none" THEN next ELSE At("raised", gpc.i, gpc.j)
    /\ UNCHANGED <<hero, mpc, screenshots, outputs, shots>>

CaptureSizes == NamedSizes \cup {<<3840, 2160>>, <<MaxDim, MaxDim>>}

ShotValues == {[kind |-> "None"], [kind |-> "missing"]}
                  \cup {[kind |-> "file", size |-> sz] : sz \in CaptureSizes}

InitCapture ==
    /\ Idle
    /\ screenshots = <<>>
    /\ \E count \in 0..MaxShots : shots \in [1..count -> ShotValues]

NextCapture == GsaStart \/ GsaShot \/ GsaSize

SpecCapture == InitCapture /\ [][NextCapture]_vars

(***************************************************************************)
(* Claims about the fit functions, checked under Spec.                     *)
(***************************************************************************)
IsFit(fn) == fit.fn = fn

IsCover == fit.fn \in {"create_store_asset", "resize_and_crop"} /\ fit.fit_strategy = "cover"

IsContain == fit.fn = "create_store_asset" /\ fit.fit_strategy = "contain"

\* C1 (as claimed): every cover fit returns an image of exactly the target size, the
\* scaled image being at least as large as the target in both dimensions, so that
\* the crop window lies entirely inside the scaled image.
C1_CoverScaledCoversTarget ==
    IsCover =>
        /\ fit.error = "none"
        /\ fit.out_size = fit.size
        /\ fit.new_w >= fit.size[1]
        /\ fit.new_h >= fit.size[2]
        /\ 0 <= fit.box[1] /\ fit.box[3] <= fit.new_w
        /\ 0 <= fit.box[2] /\ fit.box[4] <= fit.new_h

\* C2 (as claimed): the cover branch of create_store_asset crops the centre of the
\* scaled source: the crop window starts at left = (scaledWidth - target.width) div 2
\* and top = (scaledHeight - target.height) div 2 and has the target's size.
C2_CoverCropIsCentred ==
    (IsFit("create_store_asset") /\ IsCover /\ fit.error = "none") =>
        LET left == (fit.new_w - fit.size[1]) \div 2
            top  == (fit.new_h - fit.size[2]) \div 2
        IN  fit.box = <<left, top, left + fit.size[1], top + fit.size[2]>>

\* C3: the contain branch of create_store_asset never crops: the scaled source is no
\* larger than the target in either dimension and equals it on one axis, where the
\* paste offset is 0; on the other axis it is pasted at (target - scaled) div 2, so
\* that it lies inside the canvas and the two padding bars differ by at most 1.
C3_ContainNeverCrops ==
    IsContain =>
        LET tw == fit.size[1]
            th == fit.size[2]
        IN  /\ fit.new_w <= tw /\ fit.new_h <= th
            /\ fit.new_w = tw \/ fit.new_h = th
            /\ fit.error = "none" =>
                  LET x == fit.paste[1]
                      y == fit.paste[2]
                      right  == tw - (x + fit.new_w)
                      bottom == th - (y + fit.new_h)
                  IN  /\ fit.out_size = fit.size
                      /\ x = (tw - fit.new_w) \div 2
                      /\ y = (th - fit.new_h) \div 2
                      /\ 0 <= x /\ x + fit.new_w <= tw
                      /\ 0 <= y /\ y + fit.new_h <= th
                      /\ right - x \in {0, 1}
                      /\ bottom - y \in {0, 1}
                      /\ (x = 0 /\ fit.new_w = tw) \/ (y = 0 /\ fit.new_h = th)

\* C3 witness: a contain fit that pasted the scaled source between two bars of
\* unequal height.
C3_Witness ==
    /\ IsContain
    /\ fit.error = "none"
    /\ fit.wider
    /\ fit.new_h >= 1
    /\ (fit.size[2] - fit.new_h) % 2 = 1

\* C5 (as claimed): for every source and target with positive dimensions and either
\* fit policy, create_store_asset reaches its result without error, every scaled
\* size it computes having width >= 1 and height >= 1.
C5_FitNeverFails ==
    IsFit("create_store_asset") =>
        /\ fit.new_w >= 1
        /\ fit.new_h >= 1
        /\ fit.error = "none"

IsSmallCapsuleOfScreenshot ==
    /\ IsCover
    /\ fit.source = <<1920, 1080>>
    /\ fit.size = <<462, 174>>

IsHero == hero.fn = "create_hero_with_logo"

CeilDiv(a, b) == (a + b - 1) \div b

\* C4 (as claimed): with more than 12 sources the grid is laid out for the truncated
\* sequence: the first 12 sources are placed in order, tile i at column i mod cols,
\* row i div cols, and cols, rows and the total grid height are those of 12 sources.
C4_LayoutOfTruncated ==
    (IsHero /\ hero.error = "none" /\ hero.len > MaxTiles) =>
        LET cols == Min(MaxCols, MaxTiles)
            rows == CeilDiv(MaxTiles, cols)
        IN  /\ Len(hero.tiles) = MaxTiles
            /\ \A k \in 1..Len(hero.tiles) :
                  /\ hero.tiles[k].src = k - 1
                  /\ hero.tiles[k].col = (k - 1) % cols
                  /\ hero.tiles[k].row = (k - 1) \div cols
            /\ hero.cols = cols
            /\ hero.rows = rows
            /\ hero.total_h = hero.padding + hero.cell_h * rows + hero.gap * (rows - 1)

IsLibraryHeroOf(count) ==
    /\ IsHero
    /\ hero.len = count
    /\ hero.size = <<3840, 1240>>

\* C7 (as claimed): 6 sources on the 3840x1240 canvas give cols = 4, rows = 2,
\* padding 77, tile width 864 and tile height 486.
C7_AsClaimed ==
    IsLibraryHeroOf(6) =>
        /\ hero.cols = 4
        /\ hero.rows = 2
        /\ hero.padding = 77
        /\ hero.cell_w = 864
        /\ hero.cell_h = 486

\* C7 (amended): 6 sources on the 3840x1240 canvas (the call main makes for
\* library_hero) give cols = 4, rows = 2, padding 76 (int() truncates 76.8), tile
\* width (3840 - 76*5) div 4 = 865 and tile height int(865 * 9/16) = 486.
C7_LibraryHeroGrid ==
    IsLibraryHeroOf(6) =>
        /\ hero.error = "none"
        /\ hero.cols = 4
        /\ hero.rows = 2
        /\ hero.padding = 76
        /\ hero.cell_w = 865
        /\ hero.cell_h = 486

\* C7 witness: main has composed library_hero from 6 screenshots.
C7_Witness ==
    /\ mpc = "library_capsule"
    /\ IsLibraryHeroOf(6)
    /\ "library_hero" \in outputs

\* C8: create_hero_with_logo([]) ends in an error before any tile is placed and
\* before any image is saved, and main never makes that call: with no screenshots it
\* returns early, having called nothing and saved nothing.
C8_EmptyHeroFails ==
    /\ (IsHero /\ hero.len = 0) =>
          /\ hero.error = "ZeroDivisionError"
          /\ hero.tiles = <<>>
          /\ ~hero.saved
          /\ outputs = {}
    /\ (IsHero /\ mpc # "idle") => hero.len >= 1
    /\ (screenshots = <<>> /\ mpc # "idle") =>
          /\ mpc = "returned"
          /\ fit = NoCall /\ hero = NoCall /\ outputs = {}

\* C8 witness: create_hero_with_logo was called with no sources.
C8_Witness == IsHero /\ hero.len = 0 /\ hero.error # "none"

TilesInsideHorizontally ==
    \A k \in 1..Len(hero.tiles) :
        0 <= hero.tiles[k].x /\ hero.tiles[k].x + hero.cell_w <= hero.size[1]

TilesInsideVertically ==
    \A k \in 1..Len(hero.tiles) :
        0 <= hero.tiles[k].y /\ hero.tiles[k].y + hero.cell_h <= hero.size[2]

IsLibraryHeroUpTo12 ==
    /\ IsHero
    /\ hero.size = <<3840, 1240>>
    /\ hero.len \in 1..MaxTiles
    /\ hero.error = "none"

\* C10 (as claimed): for 1..12 sources on the 3840x1240 canvas every tile lies
\* entirely inside the canvas and the title bar's titleY = startY - 80 is >= 0
\* (startY and titleY are never negative).
C10_AsClaimed ==
    IsLibraryHeroUpTo12 =>
        /\ TilesInsideHorizontally
        /\ TilesInsideVertically
        /\ hero.start_y >= 0
        /\ hero.title_y >= 0

\* C10 (amended): for 1..12 sources on the 3840x1240 canvas every tile and the
\* title bar lie horizontally inside the canvas; the tiles lie vertically inside it
\* (and startY >= 0) exactly when 2 <= n <= 8, and titleY = startY - 80 is >= 0
\* exactly when n is 3 or 4 (for 5..8 sources startY = 58 and titleY = -22).
C10_HeroRectangles ==
    (IsHero /\ hero.size = <<3840, 1240>> /\ hero.len \in 1..MaxTiles) =>
        /\ hero.error = "none"
        /\ Len(hero.tiles) = hero.len
        /\ TilesInsideHorizontally
        /\ 0 <= hero.title[1] /\ hero.title[3] <= hero.size[1]
        /\ hero.title[2] = hero.title_y /\ hero.title_y = hero.start_y - 80
        /\ TilesInsideVertically <=> hero.len \in 2..8
        /\ hero.start_y >= 0 <=> hero.len \in 2..8
        /\ hero.title_y >= 0 <=> hero.len \in 3..4
        /\ hero.len \in 5..8 => (hero.start_y = 58 /\ hero.title_y = -22)

\* C10 witness: main has composed library_hero from 6 screenshots, the title bar
\* starting above the canvas.
C10_Witness ==
    /\ mpc \in {"library_capsule", "done"}
    /\ IsLibraryHeroOf(6)
    /\ hero.title_y < 0

(***************************************************************************)
(* Claims about generate_steam_assets, checked under SpecCapture.          *)
(***************************************************************************)
\* The inner-loop iteration for size j of screenshot i has been executed.
Processed(i, j) ==
    \/ gpc.at = "done"
    \/ gpc.at # "idle" /\ i < gpc.i
    \/ gpc.at = "size" /\ i = gpc.i /\ j < gpc.j

HasAsset(i, j) ==
    \E a \in assets : a.shot = i /\ a.size_name = STEAM_REQUIREMENTS[j][1]

Fits(i, j) ==
    /\ shots[i].kind = "file"
    /\ STEAM_REQUIREMENTS[j][2] <= shots[i].size[1]
    /\ STEAM_REQUIREMENTS[j][3] <= shots[i].size[2]

====
